---- MODULE Spec2Model ----
(***************************************************************************)
(* Session / protocol core of og-mcp: the two HTTP transport adapters      *)
(* (src/server.ts: SSE, src/server-http.ts: streamable HTTP), the server   *)
(* instance built by createServer (src/mcp.ts) with its subscription set,  *)
(* log level and three interval timers, the credential store               *)
(* (src/utils/sessionIdToAppId.ts) and the tool registry (src/tools).      *)
(*                                                                         *)
(* Node runs every handler to its next await on one thread, so each action *)
(* below is one such run.  Awaits that only wait for microtasks            *)
(* (server.connect, cleanup, server.close) do not let another handler in   *)
(* and stay inside the action, and so does the await of SetLevel on        *)
(* server.notification, whose transport.send is a synchronous write on     *)
(* both transports.  The await that waits for the peer (the sampling round *)
(* trip of Subscribe) ends the action and leaves a record in inflight.     *)
(*                                                                         *)
(* The MCP SDK is modelled by what its classes do at the call sites:       *)
(* Protocol.connect stores the transport in server._transport (replacing   *)
(* the previous one), Protocol._onclose clears server._transport and then  *)
(* calls server.onclose, SSEServerTransport.handlePostMessage dispatches   *)
(* on the transport it is called on without looking at the sessionId       *)
(* query parameter, StreamableHTTPServerTransport creates its session id   *)
(* on an initialize request and calls onsessionclosed on DELETE.           *)
(***************************************************************************)
EXTENDS Integers, Sequences, FiniteSets, TLC

\* ---------------------------------------------------------------- bounds
MaxConn == 2        \* transports constructed in one run
MaxReq == 3         \* Subscribe / Unsubscribe / SetLevel requests dispatched in one run
MaxTools == 3       \* length of the tool lists handed to the registry build

\* ------------------------------------------------------------ input sets
URIs == {"scheme://abc/def", "scheme://abc/xyz"}
KeyOf(t) == "key" \o ToString(t)   \* the app id of the client that opens the t-th connection
Undefined == "undefined"           \* JavaScript undefined (also: header or query parameter not sent)
Absent == "absent"                 \* no entry for the key in a Map
EnvAppIds == {"", "envKey"}        \* process.env.OPENGRAPH_APP_ID
BogusId == MaxConn + 1                      \* a session id the server never generated

ConnIds == 1..MaxConn              \* the n-th transport constructed
AppIds == {KeyOf(t) : t \in ConnIds}
ServerIds == 1..MaxConn            \* the n-th createServer() result
SessionIdOf(t) == t                \* randomUUID(): unique per transport
SessionIds == {SessionIdOf(t) : t \in ConnIds}

\* messages (mcp.ts:83-92): the severity ladder, lowest first
messages == <<"debug", "info", "notice", "warning", "error", "critical", "alert", "emergency">>
LevelInputs == {"warning", "error"}    \* levels the modelled clients ask for

VARIABLES
    adapter,              \* which entry point runs: "sse" (server.ts) or "http" (server-http.ts)
    envAppId,             \* process.env.OPENGRAPH_APP_ID
    nextId,               \* number of transports constructed so far
    created,              \* server ids for which createServer() has run
    subscriptions,        \* per server: the Set<string>, in insertion order
    logLevel,             \* per server: logLevel
    intervals,            \* per server: which of the three setInterval handles are live
    srvTransport,         \* per server: server.transport (0: undefined)
    transport,            \* server.ts: the module-level `transport` (0: unassigned)
    tstate,               \* per transport: "none", "open", "closed", or "dropped" (streamable
                          \* HTTP: the client's connections have gone, close() has not run)
    initialized,          \* per transport (streamable HTTP): _initialized
    sessions,             \* server-http.ts: sessions Map, session id -> transport (0: no entry)
    sessionIdToAppIdMap,  \* the credential store
    inflight,             \* per server: handlers suspended at an await
    dispatched,           \* number of Subscribe / Unsubscribe / SetLevel requests dispatched so far
    netSubs,              \* per server: the URIs whose last Subscribe / Unsubscribe to arrive was a
                          \* Subscribe (history)
    netLevel,             \* per server: the level of the last SetLevel to arrive (history)
    tornDown,             \* session ids whose teardown callback has run (history)
    emitted,              \* server.notification calls made by the last step
    response,             \* outcome of the request handled by the last step
    toolRun,              \* what the last tools/call did
    toolDefs,             \* tools/index.ts: the names of the tool objects in the list, in order
    tools,                \* tools/index.ts: the exported registry array
    startup               \* "loading" until the module has been evaluated, then "listening" or "failed"

vars == <<adapter, envAppId, nextId, created, subscriptions, logLevel, intervals,
          srvTransport, transport, tstate, initialized, sessions, sessionIdToAppIdMap,
          inflight, dispatched, netSubs, netLevel, tornDown, emitted, response, toolRun, toolDefs, tools, startup>>

registry == <<toolDefs, tools, startup>>

\* the answer to one HTTP request: its status, what the request was (verb, whether its
\* session id was none, known or unknown, whether its body was an initialize request,
\* its JSON-RPC method), the JSON-RPC outcome so far and the result of a tools/list
Resp(status, verb, sent, creating, method, rpc) ==
    [status |-> status, verb |-> verb, sent |-> sent, creating |-> creating,
     method |-> method, rpc |-> rpc, result |-> <<>>, from |-> 0, rejection |-> "none"]
NoResponse == Resp("none", "none", "none", FALSE, "none", "none")
NoToolRun ==
    [caller |-> 0, session |-> 0, arguments |-> <<>>, tool |-> "none", error |-> "none",
     constructed |-> FALSE, executed |-> FALSE, appId |-> "undefined", downstream |-> FALSE,
     usedAppId |-> "", result |-> "none", outcome |-> "none"]

\* ------------------------------------------------------ credential store
setAppId(map, sessionId, appId) ==
    IF sessionId = 0 THEN map                       \* !sessionId: warn and return
    ELSE [map EXCEPT ![sessionId] = appId]          \* an invalid appId is stored all the same

getAppId(map, sessionId) ==
    IF sessionId = 0 THEN Undefined
    ELSE IF sessionId \notin DOMAIN map \/ map[sessionId] = Absent THEN Undefined
    ELSE map[sessionId]

deleteAppIdMutant(map, sessionId) ==
    [k \in DOMAIN map |-> Absent]

\* deleteAppId (sessionIdToAppId.ts:39-45)
deleteAppId(map, sessionId) ==
    IF sessionId = 0 \/ sessionId \notin DOMAIN map THEN map
    ELSE [map EXCEPT ![sessionId] = Absent]

\* --------------------------------------------------------- createServer
AllLive == [subsUpdateInterval |-> TRUE, logsUpdateInterval |-> TRUE, stdErrUpdateInterval |-> TRUE]
NoneLive == [subsUpdateInterval |-> FALSE, logsUpdateInterval |-> FALSE, stdErrUpdateInterval |-> FALSE]

cleanupMutant(iv) ==
    [iv EXCEPT !.subsUpdateInterval = FALSE, !.logsUpdateInterval = FALSE]

\* cleanup (mcp.ts:671-675): clearInterval on each of the three handles
cleanup(iv) ==
    [iv EXCEPT !.subsUpdateInterval = FALSE, !.logsUpdateInterval = FALSE,
               !.stdErrUpdateInterval = FALSE]

\* the server instance that serves a session id
ServerOfSession(sid) == IF adapter \in {"sse", "stdio"} THEN 1 ELSE sid

\* the session id of the transport a server is connected to (0: none)
SessionOfServer(s) ==
    IF srvTransport[s] = 0 THEN 0
    ELSE IF adapter = "stdio" THEN 0                \* StdioServerTransport has no sessionId
    ELSE IF adapter = "http" /\ ~initialized[srvTransport[s]] THEN 0
    ELSE SessionIdOf(srvTransport[s])

\* ------------------------------------------------------------- the tools
\* ToolNames (tools/constants.ts), in the order of the registry list (tools/index.ts:14-25)
ToolNames == <<"getOgData", "getOgScrapeData", "getOgScreenshot", "getOgQuery", "getOgExtract",
               "generateImage", "iterateImage", "inspectImageSession", "exportImageAsset">>
RegisteredNamesMutant == {ToolNames[i] : i \in 2..Len(ToolNames)}

\* the case labels of the switch on the tool name (mcp.ts:564-628)
RegisteredNames == {ToolNames[i] : i \in 1..Len(ToolNames)}
\* the names clients call: every name of the enum and one that is no tool
CallNames == {ToolNames[i] : i \in 1..Len(ToolNames)} \cup {"doesNotExist"}

\* BaseTool.toToolType (tools/base.ts:19-25): the descriptor of one tool object
toToolType(name) ==
    [name |-> name, description |-> "description of " \o name, inputSchema |-> name]

LoadToolsMutant(defs) ==
    [i \in 1..Len(defs) |-> toToolType(defs[1])]

\* the array literal of tools/index.ts:14-25 over a list of tool objects
LoadTools(defs) ==
    [i \in 1..Len(defs) |-> toToolType(defs[i])]

\* the switch cases that look the credential up before constructing the tool (mcp.ts:565-603)
CredentialTools == {"getOgData", "getOgScrapeData", "getOgScreenshot", "getOgQuery", "getOgExtract"}

\* Argument values by the shape zod looks at; Missing: the key is not there.
Missing == "missing"
Fields == {"url", "site", "query", "html_elements", "sessionId", "assetId", "prompt"}
NoArgs == [f \in Fields |-> Missing]
ArgSamples == {
    NoArgs,
    [NoArgs EXCEPT !["url"] = "url"],
    [NoArgs EXCEPT !["url"] = "text"],
    [NoArgs EXCEPT !["site"] = "url", !["query"] = "text", !["html_elements"] = "strings"],
    [NoArgs EXCEPT !["site"] = "text", !["query"] = "text", !["html_elements"] = "strings"],
    [NoArgs EXCEPT !["site"] = "url", !["query"] = "number", !["html_elements"] = "text"],
    [NoArgs EXCEPT !["sessionId"] = "uuid", !["assetId"] = "uuid", !["prompt"] = "text"],
    [NoArgs EXCEPT !["sessionId"] = "text", !["assetId"] = "uuid", !["prompt"] = "text"],
    [NoArgs EXCEPT !["sessionId"] = "uuid"],
    [NoArgs EXCEPT !["sessionId"] = "uuid", !["assetId"] = "uuid", !["prompt"] = "number"] }

\* one zod field check: z.string().url(), z.string().uuid(), z.string(), z.array(z.string())
Satisfies(type, v) ==
    CASE type = "url" -> v = "url"
      [] type = "uuid" -> v = "uuid"
      [] type = "string" -> v \in {"url", "uuid", "text"}
      [] type = "strings" -> v = "strings"

\* the required fields of each tool's inputSchema
inputSchema(name) ==
    CASE name \in {"getOgData", "getOgScrapeData", "getOgScreenshot"} ->
            {<<"url", "url">>}
      [] name = "getOgQuery" -> {<<"site", "url">>, <<"query", "string">>}
      [] name = "getOgExtract" -> {<<"site", "url">>, <<"html_elements", "strings">>}
      [] name = "generateImage" -> {<<"prompt", "string">>}
      [] name = "iterateImage" ->
            {<<"sessionId", "uuid">>, <<"assetId", "uuid">>, <<"prompt", "string">>}
      [] name = "inspectImageSession" -> {<<"sessionId", "uuid">>}
      [] name = "exportImageAsset" -> {<<"sessionId", "uuid">>, <<"assetId", "uuid">>}

\* inputSchema.parse(args) returns (TRUE) or throws a ZodError (FALSE)
parse(name, args) ==
    \A fd \in inputSchema(name) : Satisfies(fd[2], args[fd[1]])

\* og.ts getAppId: the explicit app id, else the environment default, else ''
actualAppId(app_id, env) ==
    IF app_id \notin {Undefined, ""} THEN app_id ELSE env

CallToolMutant(name, args, hasTransport, appId, env, outcome) ==
    LET known == name \in RegisteredNames
        needs == name \in CredentialTools
        noCred == needs /\ hasTransport /\ appId \in {Undefined, ""}
        used == IF needs THEN actualAppId(appId, env) ELSE actualAppId(Undefined, env)
    IN  [tool |-> name,
         error |-> IF ~known THEN "unknownTool"
                   ELSE IF noCred THEN "missingAppId"
                   ELSE IF ~parse(name, args) THEN "validation" ELSE "none",
         constructed |-> known /\ ~noCred,
         executed |-> known /\ ~noCred,
         appId |-> IF known /\ ~noCred /\ needs THEN appId ELSE Undefined,
         downstream |-> known /\ ~noCred /\ (needs => used # ""),
         usedAppId |-> IF known /\ ~noCred THEN used ELSE "",
         result |-> "none"]

\* How the downstream service answers one call: with success, not at all (fetch
\* throws), with a non-success status and a JSON error body, or with a body that is
\* not JSON.
Outcomes == {"ok", "networkError", "badStatus", "unparsable"}

\* execute of each tool once its downstream request is under way.  Every body is one
\* try/catch that returns the error as a text block ("errorContent").  The helpers of
\* og.ts differ in what they take for a failure: querySite and the og-image-api
\* functions test response.ok, getScreenshotUrl parses the reply against a schema,
\* scrapeSite and extractHtmlElements hand the reply body on as it is
\* ("bodyContent"), and getSiteOgData picks three fields of the reply, which
\* execute replaces by {} when they are missing ("emptyContent").
execute(name, outcome) ==
    CASE outcome = "ok" -> "content"
      [] outcome = "networkError" -> "errorContent"
      [] outcome = "badStatus" ->
            CASE name = "getOgData" -> "emptyContent"
              [] name \in {"getOgScrapeData", "getOgExtract"} -> "bodyContent"
              [] OTHER -> "errorContent"
      [] outcome = "unparsable" ->
            IF name = "getOgScrapeData" THEN "bodyContent" ELSE "errorContent"

\* CallToolRequestSchema handler (mcp.ts:554-629) with the tool's execute:
\* what one tools/call does, as a record
CallTool(name, args, hasTransport, appId, env, outcome) ==
    LET known == name \in RegisteredNames
        needs == name \in CredentialTools
        \* isSSETransport && !appId
        noCred == needs /\ hasTransport /\ appId \in {Undefined, ""}
        valid == known /\ ~noCred /\ parse(name, args)
        used == IF needs THEN actualAppId(appId, env) ELSE actualAppId(Undefined, env)
        \* the og.ts helpers throw before fetch when no app id is left
        fetches == valid /\ (needs => used # "")
    IN  [tool |-> name,
         error |-> IF ~known THEN "unknownTool"
                   ELSE IF noCred THEN "missingAppId"
                   ELSE IF ~valid THEN "validation" ELSE "none",
         constructed |-> known /\ ~noCred,
         executed |-> valid,
         appId |-> IF known /\ ~noCred /\ needs THEN appId ELSE Undefined,
         downstream |-> fetches,
         usedAppId |-> IF valid THEN used ELSE "",
         result |-> IF ~valid THEN "none"
                    ELSE IF fetches THEN execute(name, outcome) ELSE "errorContent"]

\* ------------------------------------------------- the stateless handlers
\* A resource URI, by the pieces the handler looks at: what it starts with, and the
\* list uri.replace("asset://", "").split("/") yields, each piece by its shape: a
\* lower-case UUID, an upper-case one, a UUID followed by more text, other text, or
\* the empty string.
UriSamples ==
    {[scheme |-> "file://", parts |-> <<"text">>],
     [scheme |-> "", parts |-> <<"uuid", "uuid">>],
     [scheme |-> "asset://", parts |-> <<"">>],
     [scheme |-> "asset://", parts |-> <<"uuid">>],
     [scheme |-> "asset://", parts |-> <<"uuid", "">>],
     [scheme |-> "asset://", parts |-> <<"uuid", "uuid">>],
     [scheme |-> "asset://", parts |-> <<"UUID", "uuid">>],
     [scheme |-> "asset://", parts |-> <<"uuid", "UUID">>],
     [scheme |-> "asset://", parts |-> <<"text", "uuid">>],
     [scheme |-> "asset://", parts |-> <<"uuid", "text">>],
     [scheme |-> "asset://", parts |-> <<"uuid", "uuid+">>],
     [scheme |-> "asset://", parts |-> <<"uuid+", "uuid">>],
     [scheme |-> "asset://", parts |-> <<"uuid", "uuid", "">>],
     [scheme |-> "asset://", parts |-> <<"uuid", "uuid", "uuid">>]}

uuidRegexMutant(part) ==
    part # ""

\* /^[0-9a-f]{8}-[0-9a-f]{4}-[0-9a-f]{4}-[0-9a-f]{4}-[0-9a-f]{12}$/i .test(part)
uuidRegex(part) ==
    part \in {"uuid", "UUID"}

getAssetFileMutant(parts) ==
    [asset |-> parts[1], app_id |-> Undefined]

\* the call getAssetFile(assetId) of the handler (mcp.ts:184, 194) and the request it
\* makes (og-image-api getAssetFile): GET {base}/assets/{assetId}/file, with no app_id
\* argument, so that withAppId falls back to the environment
getAssetFile(parts) ==
    [asset |-> parts[2], app_id |-> Undefined]

\* ReadResourceRequestSchema handler (mcp.ts:175-210); getAssetFile throws on a
\* network error and on a non-success status
ReadResource(uri, outcome) ==
    IF uri.scheme # "asset://"
    THEN [fetched |-> FALSE, rpc |-> "error", message |-> "Unknown resource URI scheme"]
    ELSE IF Len(uri.parts) # 2
    THEN [fetched |-> FALSE, rpc |-> "error", message |-> "Invalid asset URI format"]
    ELSE IF ~uuidRegex(uri.parts[1]) \/ ~uuidRegex(uri.parts[2])
    THEN [fetched |-> FALSE, rpc |-> "error", message |-> "Invalid session ID or asset ID format"]
    ELSE IF outcome = "ok"
    THEN [fetched |-> TRUE, rpc |-> "result", message |-> "contents",
          fetch |-> getAssetFile(uri.parts)]
    ELSE [fetched |-> TRUE, rpc |-> "error", message |-> "Failed to fetch asset",
          fetch |-> getAssetFile(uri.parts)]

\* the prompts of ListPromptsRequestSchema (mcp.ts:226-300): the arguments of each,
\* and those declared required
PromptArguments ==
    [x \in {"create-branded-diagram", "iterate-and-refine", "create-asset-set", "quick-icon"} |->
        CASE x = "create-branded-diagram" ->
                [all |-> {"diagramType", "description"}, required |-> {"diagramType", "description"}]
          [] x = "iterate-and-refine" ->
                [all |-> {"sessionId", "assetId", "issue"}, required |-> {"sessionId", "assetId"}]
          [] x = "create-asset-set" ->
                [all |-> {"assetType", "count"}, required |-> {"assetType", "count"}]
          [] x = "quick-icon" ->
                [all |-> {"iconDescription", "style"}, required |-> {"iconDescription"}]]

PromptName == DOMAIN PromptArguments

\* GetPromptRequestSchema handler (mcp.ts:302-548): every branch reads its
\* arguments as args?.x || default and returns the rendered messages; given is the
\* set of argument names the request carries
GetPrompt(name, given) ==
    IF name \in PromptName
    THEN [rpc |-> "result", messages |-> TRUE,
          defaulted |-> PromptArguments[name].all \ given]
    ELSE [rpc |-> "error", messages |-> FALSE, defaulted |-> {}]

\* EXAMPLE_COMPLETIONS (mcp.ts:35-40), each candidate as its characters
EXAMPLE_COMPLETIONS ==
    [diagramType |-> <<<<"f", "l", "o", "w", "c", "h", "a", "r", "t">>,
                     <<"s", "e", "q", "u", "e", "n", "c", "e">>,
                     <<"a", "r", "c", "h", "i", "t", "e", "c", "t", "u", "r", "e">>,
                     <<"e", "r", "-", "d", "i", "a", "g", "r", "a", "m">>,
                     <<"s", "t", "a", "t", "e">>,
                     <<"o", "t", "h", "e", "r">>>>,
     assetType |-> <<<<"i", "c", "o", "n", "s">>,
                   <<"s", "o", "c", "i", "a", "l", "-", "c", "a", "r", "d", "s">>,
                   <<"d", "i", "a", "g", "r", "a", "m", "s">>,
                   <<"i", "l", "l", "u", "s", "t", "r", "a", "t", "i", "o", "n", "s">>>>,
     style |-> <<<<"o", "u", "t", "l", "i", "n", "e">>,
               <<"f", "i", "l", "l", "e", "d">>,
               <<"d", "u", "o", "t", "o", "n", "e">>,
               <<"3", "d">>>>,
     count |-> <<<<"2">>,
               <<"3">>,
               <<"4">>,
               <<"5">>,
               <<"6">>,
               <<"7">>,
               <<"8">>,
               <<"9">>,
               <<"1", "0">>>>]

\* String.prototype.toLowerCase on one character
LowerChar(c) ==
    CASE c = "F" -> "f" [] c = "S" -> "s" [] c = "O" -> "o" [] c = "D" -> "d"
      [] c = "E" -> "e" [] c = "U" -> "u"
      [] OTHER -> c

toLowerCase(str) ==
    [i \in 1..Len(str) |-> LowerChar(str[i])]

startsWith(str, prefix) ==
    /\ Len(prefix) <= Len(str)
    /\ \A i \in 1..Len(prefix) : str[i] = prefix[i]

filterMutant(seq, prefix) ==
    SelectSeq(seq, LAMBDA c : startsWith(c, prefix))

\* completions.filter((value) => value.toLowerCase().startsWith(
\* argument.value.toLowerCase())) (mcp.ts:645-647): the candidates kept, in the
\* array's order
RECURSIVE filter(_, _)
filter(seq, prefix) ==
    IF seq = <<>> THEN <<>>
    ELSE IF startsWith(toLowerCase(Head(seq)), toLowerCase(prefix))
         THEN <<Head(seq)>> \o filter(Tail(seq), prefix)
         ELSE filter(Tail(seq), prefix)

\* names every object inherits from Object.prototype: EXAMPLE_COMPLETIONS[name] is
\* then a function (or the prototype itself), which is truthy and has no filter
InheritedNames == {"toString", "constructor", "__proto__"}

ArgumentNames == DOMAIN EXAMPLE_COMPLETIONS \cup InheritedNames \cup {"description"}

\* the partial strings a client sends as argument.value
PartialValues ==
    {<<>>,
     <<"f">>,
     <<"F">>,
     <<"s">>,
     <<"S", "t">>,
     <<"f", "l", "o", "w", "c", "h", "a", "r", "t", "s">>,
     <<"O">>,
     <<"3", "D">>,
     <<"1">>,
     <<"x">>}

\* CompleteRequestSchema handler (mcp.ts:631-652)
Complete(ref, name, value) ==
    IF ref = "ref/resource"
    THEN [rpc |-> "result", values |-> <<>>, total |-> -1]
    ELSE IF name \in DOMAIN EXAMPLE_COMPLETIONS
    THEN LET values == filter(EXAMPLE_COMPLETIONS[name], value)
         IN  [rpc |-> "result", values |-> values, total |-> Len(values)]
    ELSE IF name \in InheritedNames
    THEN \* completions.filter is not a function
         [rpc |-> "error", values |-> <<>>, total |-> -1]
    ELSE [rpc |-> "result", values |-> <<>>, total |-> -1]

\* the requests to the stateless handlers
ReadRequests ==
    {r \in [method : {"resources/read"}, uri : UriSamples,
            outcome : {"ok", "networkError", "badStatus"}] :
        r.outcome # "ok" => ReadResource(r.uri, "ok").fetched}

PromptRequests ==
    {r \in [method : {"prompts/get"}, name : PromptName \cup {"no-such-prompt"},
            given : SUBSET {"diagramType", "sessionId", "assetId", "assetType", "count",
                            "iconDescription"}] :
        /\ Cardinality(r.given) <= 2
        /\ r.given \subseteq (IF r.name \in PromptName THEN PromptArguments[r.name].all ELSE {})}

CompleteRequests ==
    [method : {"completion/complete"}, ref : {"ref/prompt"},
     name : DOMAIN EXAMPLE_COMPLETIONS, value : PartialValues]
    \cup [method : {"completion/complete"}, ref : {"ref/prompt"},
          name : ArgumentNames \ DOMAIN EXAMPLE_COMPLETIONS, value : {<<>>, <<"f">>}]
    \cup [method : {"completion/complete"}, ref : {"ref/resource"}, name : {"style"},
          value : {<<>>, <<"f">>}]

\* ------------------------------------------------- exportImageAsset
\* A destination path on a POSIX host (the image runs node on alpine): whether it
\* starts with "/", and its components, each as its characters.  "NUL" stands for a
\* character \\0.  The empty string is the relative path without components.
Components ==
    {<<"e", "t", "c">>, <<"E", "t", "c">>, <<"U", "s", "r">>, <<"h">>, <<".", ".">>,
     <<"f", "NUL">>}
PathSamples ==
    [absolute : BOOLEAN, parts : UNION {[1..n -> Components] : n \in 0..3}]
EmptyString == [absolute |-> FALSE, parts |-> <<>>]
NotGiven == [absolute |-> FALSE, parts |-> <<<<"undefined">>>>]   \* args.destinationPath is undefined

\* path.normalize of an absolute path: ".." drops the component before it, and is
\* dropped itself at the root
RECURSIVE normalizeParts(_, _)
normalizeParts(done, rest) ==
    IF rest = <<>> THEN done
    ELSE IF Head(rest) = <<".", ".">>
    THEN normalizeParts(IF done = <<>> THEN <<>> ELSE SubSeq(done, 1, Len(done) - 1), Tail(rest))
    ELSE normalizeParts(Append(done, Head(rest)), Tail(rest))

normalize(p) == [p EXCEPT !.parts = normalizeParts(<<>>, @)]

\* blockedPrefixes (part_005:20-24) as the directory each names, lower-cased as on
\* line 28; the C:\\ prefixes match no path that is absolute on a POSIX host
blockedPrefixes ==
    {<<"e", "t", "c">>, <<"u", "s", "r">>, <<"b", "i", "n">>, <<"s", "b", "i", "n">>,
     <<"v", "a", "r">>, <<"s", "y", "s", "t", "e", "m">>, <<"l", "i", "b", "r", "a", "r", "y">>}

\* lowerPath.startsWith(blocked.toLowerCase()) for some blocked prefix "/dir/": the
\* first component is dir, whatever its case, and a separator follows it
startsWithBlocked(p) ==
    /\ Len(p.parts) >= 2
    /\ toLowerCase(p.parts[1]) \in blockedPrefixes

validateDestinationPathMutant(p) ==
    IF ~p.absolute THEN [valid |-> FALSE, error |-> "must be absolute", normalizedPath |-> p]
    ELSE IF startsWithBlocked(p)
    THEN [valid |-> FALSE, error |-> "system directory", normalizedPath |-> p]
    ELSE [valid |-> TRUE, error |-> "none", normalizedPath |-> normalize(p)]

\* validateDestinationPath (part_005:9-34)
validateDestinationPath(p) ==
    IF ~p.absolute THEN [valid |-> FALSE, error |-> "must be absolute", normalizedPath |-> p]
    ELSE LET normalizedPath == normalize(p)
         IN  IF \E i \in 1..Len(normalizedPath.parts) :
                    "NUL" \in {normalizedPath.parts[i][j] : j \in 1..Len(normalizedPath.parts[i])}
             THEN [valid |-> FALSE, error |-> "invalid characters", normalizedPath |-> p]
             ELSE IF startsWithBlocked(normalizedPath)
             THEN [valid |-> FALSE, error |-> "system directory", normalizedPath |-> p]
             ELSE [valid |-> TRUE, error |-> "none", normalizedPath |-> normalizedPath]

\* how the calls of one export end: all succeed, getSession throws, getAssetFile
\* throws, or fs.mkdir / fs.writeFile throws
ExportOutcomes == {"ok", "noSession", "fetchFails", "writeFails"}
NoPath == [absolute |-> FALSE, parts |-> <<<<"none">>>>]

\* ExportImageAssetTool.execute (part_005:76-167): dest is args.destinationPath
\* (NotGiven: not given), isLocal the constructor's second parameter.  The result: the
\* success flag and the error of the JSON text, the path handed to fs.mkdir and
\* fs.writeFile (NoPath: neither was called)
ExportImageAssetTool(dest, isLocal, outcome) ==
    LET quiet == [success |-> FALSE, error |-> "none", fs |-> NoPath]
    IN  IF outcome = "noSession" THEN [quiet EXCEPT !.error = "Session not found"]
        ELSE IF outcome = "fetchFails" THEN [quiet EXCEPT !.error = "Error exporting asset"]
        ELSE IF dest \notin {NotGiven, EmptyString} /\ isLocal
        THEN LET pathValidation == validateDestinationPath(dest)
             IN  IF ~pathValidation.valid
                 THEN [quiet EXCEPT !.error = "Security Error"]
                 ELSE IF outcome = "writeFails"
                 THEN [success |-> FALSE, error |-> "Error exporting asset",
                       fs |-> pathValidation.normalizedPath]
                 ELSE [success |-> TRUE, error |-> "none", fs |-> pathValidation.normalizedPath]
        ELSE [quiet EXCEPT !.success = TRUE]

\* ------------------------------------------------------ the session core
Range(seq) == {seq[i] : i \in 1..Len(seq)}

RemoveAt(seq, i) == [j \in 1..(Len(seq) - 1) |-> IF j < i THEN seq[j] ELSE seq[j + 1]]

RECURSIVE Without(_, _)
Without(seq, x) ==
    IF seq = <<>> THEN <<>>
    ELSE IF Head(seq) = x THEN Without(Tail(seq), x)
    ELSE <<Head(seq)>> \o Without(Tail(seq), x)

SetAddMutant(seq, x) ==
    Append(seq, x)

\* subscriptions.add(uri) on a JavaScript Set (mcp.ts:214)
SetAdd(seq, x) ==
    IF x \in Range(seq) THEN seq ELSE Append(seq, x)

SetReplaceMutant(seq, x) ==
    <<x>>

\* the subscription set after the Subscribe handler's first run (mcp.ts:213-214)
SubscribeAdd(seq, x) ==
    SetAdd(seq, x)

\* subscriptions.delete(uri) (mcp.ts:222)
SetDelete(seq, x) ==
    Without(seq, x)

\* messages.findIndex((msg) => level === msg.level), 1-based
findIndex(level) ==
    CHOOSE i \in 1..Len(messages) : messages[i] = level

isMessageIgnoredMutant(level, current) ==
    findIndex(level) <= findIndex(current)

\* isMessageIgnored (mcp.ts:94-98)
isMessageIgnored(level, current) ==
    findIndex(level) < findIndex(current)

\* the requests a client sends to a session
Requests ==
    [method : {"resources/subscribe", "resources/unsubscribe"}, uri : URIs]
    \cup [method : {"logging/setLevel"}, level : LevelInputs]
    \cup [method : {"tools/call"}, name : CallNames, arguments : ArgSamples, outcome : Outcomes]
    \cup [method : {"tools/list"}]
    \cup ReadRequests \cup PromptRequests \cup CompleteRequests

StateMethods == {"resources/subscribe", "resources/unsubscribe", "logging/setLevel"}
StateRequests == {r \in Requests : r.method \in StateMethods}

\* one server.notification call
Notification(s, timer, method, param) ==
    [server |-> s, session |-> SessionOfServer(s), timer |-> timer, method |-> method,
     param |-> param]

\* server.transport && 'sessionId' in server.transport (mcp.ts:559)
isSSETransport(s) ==
    srvTransport[s] # 0 /\ adapter # "stdio"

ClosureMutant(s) ==
    [subs |-> <<>>, level |-> logLevel[s]]

\* the closure variables of createServer as a handler leaves them when it assigns to
\* neither: `subscriptions` (mcp.ts:67) and `logLevel` (mcp.ts:81)
Closure(s) ==
    [subs |-> subscriptions[s], level |-> logLevel[s]]

\* The first run of a request handler on server s, up to its first await on the peer:
\* the new subscription set and log level, the handler left suspended (if any), the
\* notifications sent, and the JSON-RPC outcome so far.
FirstRun(s, caller, req) ==
    LET connected == srvTransport[s] # 0
        base == Closure(s) @@ [pending |-> <<>>, emit |-> <<>>, tool |-> NoToolRun,
                               rpc |-> "result", result |-> <<>>]
    IN  CASE req.method = "resources/subscribe" ->
                \* subscriptions.add(uri); await requestSampling(...)  (mcp.ts:212-219)
                [base EXCEPT !.subs = SubscribeAdd(subscriptions[s], req.uri),
                             !.pending = IF connected THEN <<req>> ELSE <<>>,
                             !.rpc = IF connected THEN "pending" ELSE "error"]
          [] req.method = "resources/unsubscribe" ->
                \* subscriptions.delete(uri); return {}  (mcp.ts:221-224)
                [base EXCEPT !.subs = SetDelete(subscriptions[s], req.uri)]
          [] req.method = "logging/setLevel" ->
                \* logLevel = level; await server.notification(...); return {}
                \* (mcp.ts:654-669); notification throws when there is no transport
                [base EXCEPT !.level = req.level,
                             !.emit = IF connected
                                      THEN <<Notification(s, "none", "notifications/message", "debug")>>
                                      ELSE <<>>,
                             !.rpc = IF connected THEN "result" ELSE "error"]
          [] req.method = "tools/list" ->
                \* return { tools }  (mcp.ts:550-552)
                [base EXCEPT !.result = tools]
          [] req.method = "resources/read" ->
                LET out == ReadResource(req.uri, req.outcome)
                IN  [base EXCEPT !.rpc = out.rpc, !.result = [request |-> req] @@ out]
          [] req.method = "prompts/get" ->
                LET out == GetPrompt(req.name, req.given)
                IN  [base EXCEPT !.rpc = out.rpc, !.result = [request |-> req] @@ out]
          [] req.method = "completion/complete" ->
                LET out == Complete(req.ref, req.name, req.value)
                IN  [base EXCEPT !.rpc = out.rpc, !.result = [request |-> req] @@ out]
          [] req.method = "tools/call" ->
                LET run == CallTool(req.name, req.arguments, isSSETransport(s),
                                    getAppId(sessionIdToAppIdMap, SessionOfServer(s)),
                                    envAppId, req.outcome)
                IN  [base EXCEPT !.tool = [caller |-> caller, session |-> SessionOfServer(s),
                                           arguments |-> req.arguments,
                                           outcome |-> req.outcome] @@ run,
                                 !.rpc = IF run.error = "none" THEN "result" ELSE "error"]

\* server s runs the handler of req: the per-server part of an adapter action
Dispatch(s, caller, req, r) ==
    LET d == FirstRun(s, caller, req)
        changes == req.method \in StateMethods
    IN  /\ changes => dispatched < MaxReq
        /\ subscriptions' = [subscriptions EXCEPT ![s] = d.subs]
        /\ logLevel' = [logLevel EXCEPT ![s] = d.level]
        /\ inflight' = [inflight EXCEPT ![s] = @ \o d.pending]
        /\ dispatched' = IF changes THEN dispatched + 1 ELSE dispatched
        /\ netSubs' = CASE req.method = "resources/subscribe" ->
                             [netSubs EXCEPT ![s] = @ \cup {req.uri}]
                         [] req.method = "resources/unsubscribe" ->
                             [netSubs EXCEPT ![s] = @ \ {req.uri}]
                         [] OTHER -> netSubs
        /\ netLevel' = IF req.method = "logging/setLevel"
                       THEN [netLevel EXCEPT ![s] = req.level] ELSE netLevel
        /\ emitted' = d.emit
        /\ toolRun' = d.tool
        /\ response' = [r EXCEPT !.rpc = d.rpc, !.result = d.result, !.from = caller]

NoDispatch ==
    /\ UNCHANGED <<subscriptions, logLevel, inflight, dispatched, netSubs, netLevel>>
    /\ emitted' = <<>>
    /\ toolRun' = NoToolRun

AfterSamplingMutant(seq, uri) ==
    SetAdd(seq, uri)

\* what the Subscribe handler does to the set after its await: nothing, `return {}`
\* is all that is left (mcp.ts:217-218)
AfterSampling(seq, uri) ==
    seq

\* the sampling round trip of a suspended Subscribe ends (mcp.ts:217-218):
\* the handler returns {} or rejects with the client's error
SamplingReturns(s, i, ok) ==
    /\ startup = "listening"
    /\ s \in created
    /\ i \in 1..Len(inflight[s])
    /\ inflight[s][i].method = "resources/subscribe"
    /\ inflight' = [inflight EXCEPT ![s] = RemoveAt(@, i)]
    /\ subscriptions' = [subscriptions EXCEPT ![s] = AfterSampling(@, inflight[s][i].uri)]
    /\ response' = Resp("resumed", "none", "none", FALSE, "resources/subscribe",
                         IF ok THEN "result" ELSE "error")
    /\ emitted' = <<>>
    /\ toolRun' = NoToolRun
    /\ UNCHANGED <<toolDefs, tools, startup, adapter, envAppId, nextId, created, logLevel, intervals,
                   srvTransport, transport, tstate, initialized, sessions,
                   sessionIdToAppIdMap, dispatched, netSubs, netLevel, tornDown>>

\* ------------------------------------------------------------ the timers
\* subsUpdateInterval callback (mcp.ts:72-79)
SubsTick(s) ==
    /\ startup = "listening"
    /\ s \in created
    /\ intervals[s].subsUpdateInterval
    /\ emitted' = [i \in 1..Len(subscriptions[s]) |->
                     Notification(s, "subs", "notifications/resources/updated", subscriptions[s][i])]
    /\ response' = NoResponse
    /\ toolRun' = NoToolRun
    /\ UNCHANGED <<toolDefs, tools, startup, adapter, envAppId, nextId, created, subscriptions, logLevel, intervals,
                   srvTransport, transport, tstate, initialized, sessions,
                   sessionIdToAppIdMap, inflight, dispatched, netSubs, netLevel, tornDown>>

\* logsUpdateInterval callback (mcp.ts:101-108); i is the random index
LogsTick(s, i) ==
    /\ startup = "listening"
    /\ s \in created
    /\ intervals[s].logsUpdateInterval
    /\ i \in 1..Len(messages)
    /\ emitted' = IF isMessageIgnored(messages[i], logLevel[s]) THEN <<>>
                  ELSE <<Notification(s, "logs", "notifications/message", messages[i])>>
    /\ response' = NoResponse
    /\ toolRun' = NoToolRun
    /\ UNCHANGED <<toolDefs, tools, startup, adapter, envAppId, nextId, created, subscriptions, logLevel, intervals,
                   srvTransport, transport, tstate, initialized, sessions,
                   sessionIdToAppIdMap, inflight, dispatched, netSubs, netLevel, tornDown>>

\* stdErrUpdateInterval callback (mcp.ts:112-122)
StdErrTick(s) ==
    /\ startup = "listening"
    /\ s \in created
    /\ intervals[s].stdErrUpdateInterval
    /\ emitted' = <<Notification(s, "stderr", "notifications/stderr", "A stderr message")>>
    /\ response' = NoResponse
    /\ toolRun' = NoToolRun
    /\ UNCHANGED <<toolDefs, tools, startup, adapter, envAppId, nextId, created, subscriptions, logLevel, intervals,
                   srvTransport, transport, tstate, initialized, sessions,
                   sessionIdToAppIdMap, inflight, dispatched, netSubs, netLevel, tornDown>>

\* --------------------------------------------------------- SDK, Protocol
\* Protocol._onclose: every pending server.request (the sampling round trips) is
\* rejected with ConnectionClosed, so the Subscribe handlers waiting on one end
RejectPending(seq) == <<>>

\* ---------------------------------------------- SSE adapter (server.ts)
\* what the client of the t-th connection may send as app_id / x-app-id
Offered(t) == {KeyOf(t), Undefined}

\* app.get("/sse") (server.ts:15-30); q is the app_id query parameter
SSEConnect(q) ==
    /\ startup = "listening"
    /\ adapter = "sse"
    /\ nextId < MaxConn
    /\ q \in Offered(nextId + 1)
    /\ LET t == nextId + 1 IN
        /\ nextId' = t
        /\ transport' = t                                       \* line 20
        /\ tstate' = [tstate EXCEPT ![t] = "open"]
        /\ srvTransport' = [srvTransport EXCEPT ![1] = t]       \* line 21: server.connect
        /\ sessionIdToAppIdMap' = setAppId(sessionIdToAppIdMap, SessionIdOf(t), q)  \* line 22
    /\ response' = Resp("200", "GET /sse", "none", TRUE, "none", "none")
    /\ NoDispatch
    /\ UNCHANGED <<toolDefs, tools, startup, adapter, envAppId, created, intervals, initialized, sessions, tornDown>>

\* the SSE connection of transport t drops: the transport's onclose runs
\* Protocol._onclose, which runs server.onclose (server.ts:24-29)
SSEClose(t) ==
    /\ startup = "listening"
    /\ adapter = "sse"
    /\ t \in ConnIds
    /\ tstate[t] = "open"
    /\ tstate' = [tstate EXCEPT ![t] = "closed"]
    /\ srvTransport' = [srvTransport EXCEPT ![1] = 0]
    /\ inflight' = [inflight EXCEPT ![1] = RejectPending(@)]
    /\ intervals' = [intervals EXCEPT ![1] = cleanup(@)]                       \* line 26
    /\ sessionIdToAppIdMap' = deleteAppId(sessionIdToAppIdMap, SessionIdOf(transport))  \* line 28
    /\ tornDown' = tornDown \cup {SessionIdOf(t)}
    /\ response' = NoResponse
    /\ emitted' = <<>>
    /\ toolRun' = NoToolRun
    /\ UNCHANGED <<toolDefs, tools, startup, adapter, envAppId, nextId, created, subscriptions, logLevel, transport,
                   initialized, sessions, dispatched, netSubs, netLevel>>

\* What becomes of a route handler whose promise rejects (the handlers are async
\* functions without try/catch).  The sources do not fix the version of express:
\* express 4 ignores the promise, so Node raises unhandledRejection, which ends the
\* process by default; express 5 passes the error to its error handler, which answers
\* 500 unless a response has gone out already.
Rejections == {"unhandled", "errorHandler"}

\* the answer r of a route handler that has thrown, under outcome e
Rejected(r, e) ==
    [r EXCEPT !.rejection = e,
              !.status = IF @ = "none" /\ e = "errorHandler" THEN "500" ELSE @]

\* app.post("/message") (server.ts:32-35); c is the connection whose client posts
\* (its sessionId query parameter), 0 a client that never connected
SSEPost(c, req) ==
    /\ startup = "listening"
    /\ adapter = "sse"
    /\ c \in 0..nextId
    /\ IF transport = 0
       THEN \* transport is undefined: the handler's promise rejects with a TypeError
            /\ \E e \in Rejections :
                  response' = Rejected(Resp("none", "POST /message", "none", FALSE, req.method, "none"), e)
            /\ NoDispatch
       ELSE IF tstate[transport] # "open"
       THEN \* handlePostMessage without an SSE response: it answers 500 and throws
            /\ \E e \in Rejections :
                  response' = Rejected(Resp("500", "POST /message", "none", FALSE, req.method, "none"), e)
            /\ NoDispatch
       ELSE Dispatch(1, c, req, Resp("202", "POST /message", "none", FALSE, req.method, "none"))
    /\ UNCHANGED <<toolDefs, tools, startup, adapter, envAppId, nextId, created, intervals, srvTransport, transport,
                   tstate, initialized, sessions, sessionIdToAppIdMap, tornDown>>

\* ------------------------------------- stdio adapter (server-stdio.ts)
\* a JSON-RPC request read from stdin is handled by the one server (server-stdio.ts:57-58)
StdioMessage(req) ==
    /\ startup = "listening"
    /\ adapter = "stdio"
    /\ tstate[1] = "open"
    /\ Dispatch(1, 0, req, Resp("none", "stdin", "none", FALSE, req.method, "none"))
    /\ UNCHANGED <<toolDefs, tools, startup, adapter, envAppId, nextId, created, intervals, srvTransport, transport,
                   tstate, initialized, sessions, sessionIdToAppIdMap, tornDown>>

\* stdin ends: the transport's onclose runs server.onclose (server-stdio.ts:61-65)
StdioClose ==
    /\ startup = "listening"
    /\ adapter = "stdio"
    /\ tstate[1] = "open"
    /\ tstate' = [tstate EXCEPT ![1] = "closed"]
    /\ srvTransport' = [srvTransport EXCEPT ![1] = 0]
    /\ inflight' = [inflight EXCEPT ![1] = RejectPending(@)]
    /\ intervals' = [intervals EXCEPT ![1] = cleanup(@)]                       \* line 63
    /\ tornDown' = tornDown \cup {SessionIdOf(1)}
    /\ response' = NoResponse
    /\ emitted' = <<>>
    /\ toolRun' = NoToolRun
    /\ UNCHANGED <<toolDefs, tools, startup, adapter, envAppId, nextId, created, subscriptions, logLevel, transport,
                   initialized, sessions, sessionIdToAppIdMap, dispatched, netSubs, netLevel>>

\* ------------------------------- streamable HTTP adapter (server-http.ts)
Initialize == [method |-> "initialize"]

\* the mcp-session-id values a client can send: none (0), one it made up, or one
\* the server handed out
HeaderIds == {0, BogusId} \cup {SessionIdOf(t) : t \in {u \in 1..nextId : initialized[u]}}

has(h) == h \in DOMAIN sessions /\ sessions[h] # 0

\* how a request's mcp-session-id relates to the session table
Sent(h) == IF h = 0 THEN "none" ELSE IF has(h) THEN "known" ELSE "unknown"

\* createServer() (mcp.ts:50-123): a server with its three intervals running
createServer(iv, s) == [iv EXCEPT ![s] = AllLive]

\* app.post("/mcp") (server-http.ts:20-47); h is the mcp-session-id header,
\* x the x-app-id header
HTTPPost(h, body, x) ==
    /\ startup = "listening"
    /\ adapter = "http"
    /\ h \in HeaderIds
    /\ x \in Offered(nextId + 1)
    /\ IF h # 0 /\ has(h)
       THEN \* lines 23-27: the session's transport handles the request
            /\ IF body = Initialize
               THEN \* the transport is already initialized: Bad Request
                    /\ response' = Resp("400", "POST", Sent(h), TRUE, body.method, "none")
                    /\ NoDispatch
               ELSE Dispatch(sessions[h], h, body,
                             Resp("200", "POST", Sent(h), FALSE, body.method, "none"))
            /\ UNCHANGED <<nextId, created, intervals, srvTransport, tstate, initialized,
                           sessions, sessionIdToAppIdMap>>
       ELSE \* lines 29-46: a new server and a new transport
            /\ nextId < MaxConn
            /\ LET t == nextId + 1 IN
                /\ nextId' = t
                /\ created' = created \cup {t}
                /\ intervals' = createServer(intervals, t)                   \* line 29
                /\ tstate' = [tstate EXCEPT ![t] = "open"]
                /\ srvTransport' = [srvTransport EXCEPT ![t] = t]            \* line 45
                /\ IF body = Initialize
                   THEN \* onsessioninitialized (lines 33-37)
                        /\ initialized' = [initialized EXCEPT ![t] = TRUE]
                        /\ sessions' = [sessions EXCEPT ![SessionIdOf(t)] = t]
                        /\ sessionIdToAppIdMap' =
                              IF x # Undefined
                              THEN setAppId(sessionIdToAppIdMap, SessionIdOf(t), x)
                              ELSE sessionIdToAppIdMap
                        /\ response' = Resp("200", "POST", Sent(h), TRUE, body.method, "result")
                   ELSE \* the transport is not initialized: Bad Request
                        /\ response' = Resp("400", "POST", Sent(h), FALSE, body.method, "none")
                        /\ UNCHANGED <<initialized, sessions, sessionIdToAppIdMap>>
            /\ NoDispatch
    /\ UNCHANGED <<toolDefs, tools, startup, adapter, envAppId, transport, tornDown>>

\* app.get("/mcp") (server-http.ts:49-57)
HTTPGet(h) ==
    /\ startup = "listening"
    /\ adapter = "http"
    /\ h \in HeaderIds
    /\ response' = Resp(IF h = 0 \/ ~has(h) THEN "400" ELSE "200", "GET", Sent(h), FALSE,
                         "none", "none")
    /\ NoDispatch
    /\ UNCHANGED <<toolDefs, tools, startup, adapter, envAppId, nextId, created, intervals, srvTransport, transport,
                   tstate, initialized, sessions, sessionIdToAppIdMap, tornDown>>

\* app.delete("/mcp") (server-http.ts:59-67) with onsessionclosed (lines 38-42)
\* and the transport's close
HTTPDelete(h) ==
    /\ startup = "listening"
    /\ adapter = "http"
    /\ h \in HeaderIds
    /\ IF h = 0 \/ ~has(h)
       THEN /\ response' = Resp("400", "DELETE", Sent(h), FALSE, "none", "none")
            /\ UNCHANGED <<intervals, srvTransport, tstate, sessions, sessionIdToAppIdMap,
                           inflight, tornDown>>
       ELSE LET t == sessions[h] IN
            /\ sessions' = [sessions EXCEPT ![h] = 0]                           \* line 39
            /\ sessionIdToAppIdMap' = deleteAppId(sessionIdToAppIdMap, h)        \* line 40
            /\ intervals' = [intervals EXCEPT ![t] = cleanup(@)]                 \* line 41
            /\ tornDown' = tornDown \cup {h}
            /\ tstate' = [tstate EXCEPT ![t] = "closed"]
            /\ srvTransport' = [srvTransport EXCEPT ![t] = 0]
            /\ inflight' = [inflight EXCEPT ![t] = RejectPending(@)]
            /\ response' = Resp("200", "DELETE", Sent(h), FALSE, "none", "none")
    /\ emitted' = <<>>
    /\ toolRun' = NoToolRun
    /\ UNCHANGED <<toolDefs, tools, startup, adapter, envAppId, nextId, created, subscriptions, logLevel, transport,
                   initialized, dispatched, netSubs, netLevel>>

\* The client of session h goes away: its sockets, the GET stream among them, close.
\* server-http.ts (lines 20-67) registers no listener for that and the transport only
\* forgets the stream, so neither onsessionclosed nor server.onclose runs.
HTTPDrop(h) ==
    /\ startup = "listening"
    /\ adapter = "http"
    /\ h \in HeaderIds
    /\ has(h)
    /\ tstate[sessions[h]] = "open"
    /\ tstate' = [tstate EXCEPT ![sessions[h]] = "dropped"]
    /\ response' = NoResponse
    /\ emitted' = <<>>
    /\ toolRun' = NoToolRun
    /\ UNCHANGED <<toolDefs, tools, startup, adapter, envAppId, nextId, created, subscriptions, logLevel, intervals,
                   srvTransport, transport, initialized, sessions, sessionIdToAppIdMap,
                   inflight, dispatched, netSubs, netLevel, tornDown>>

HealthBodyMutant ==
    [status |-> IF \E h \in SessionIds : has(h) THEN "ok" ELSE "idle"]

\* the body of the health answer (server-http.ts:70)
HealthBody ==
    [status |-> "ok"]

\* app.get("/health") (server-http.ts:69-71): the handler reads nothing of the request
\* and nothing of the module's state
Health ==
    /\ startup = "listening"
    /\ adapter = "http"
    /\ response' = [Resp("200", "GET /health", "none", FALSE, "none", "none")
                      EXCEPT !.result = HealthBody]
    /\ NoDispatch
    /\ UNCHANGED <<toolDefs, tools, startup, adapter, envAppId, nextId, created, intervals, srvTransport, transport,
                   tstate, initialized, sessions, sessionIdToAppIdMap, tornDown>>

\* the state of everything but the registry when the entry point has been loaded,
\* with the environment default in envs
Core(envs) ==
    /\ adapter \in {"sse", "http", "stdio"}
    /\ envAppId \in envs
    /\ nextId = IF adapter = "stdio" THEN 1 ELSE 0           \* server-stdio.ts:57
    /\ created = IF adapter = "http" THEN {} ELSE {1}        \* server.ts:11, server-stdio.ts:50
    /\ subscriptions = [s \in ServerIds |-> <<>>]
    /\ logLevel = [s \in ServerIds |-> "debug"]
    /\ intervals = [s \in ServerIds |-> IF adapter # "http" /\ s = 1 THEN AllLive ELSE NoneLive]
    /\ srvTransport = [s \in ServerIds |-> IF adapter = "stdio" /\ s = 1 THEN 1 ELSE 0]
    /\ transport = 0
    /\ tstate = [t \in ConnIds |-> IF adapter = "stdio" /\ t = 1 THEN "open" ELSE "none"]
    /\ initialized = [t \in ConnIds |-> FALSE]
    /\ sessions = [sid \in SessionIds |-> 0]
    /\ sessionIdToAppIdMap = [sid \in SessionIds |-> Absent]
    /\ inflight = [s \in ServerIds |-> <<>>]
    /\ dispatched = 0
    /\ netSubs = [s \in ServerIds |-> {}]
    /\ netLevel = [s \in ServerIds |-> "debug"]
    /\ tornDown = {}
    /\ emitted = <<>>
    /\ response = NoResponse
    /\ toolRun = NoToolRun

\* the state after module load: the registry is built from the nine tools
Boot(envs) ==
    /\ Core(envs)
    /\ toolDefs = ToolNames
    /\ tools = LoadTools(ToolNames)
    /\ startup = "listening"

Init == Boot({""})

\* ------------------------------------------------------ the specification
ToolRequests == {r \in Requests : r.method = "tools/call"}

\* the tool calls the adapter specification sends: one credential tool, one image
\* tool, one unknown name
FewToolRequests ==
    {r \in ToolRequests : /\ r.name \in {"getOgData", "generateImage", "doesNotExist"}
                          /\ r.arguments = [NoArgs EXCEPT !["url"] = "url"]
                          /\ r.outcome = "ok"}

OfferedAny == AppIds \cup {Undefined}

\* connections opening and closing, and requests from Reqs; Callers are the values of
\* the sessionId query parameter of POST /message, which the handler does not read
Adapters(Reqs, Callers) ==
    \/ \E q \in OfferedAny : SSEConnect(q)
    \/ \E t \in ConnIds : SSEClose(t)
    \/ \E c \in Callers, req \in Reqs : SSEPost(c, req)
    \/ \E h \in HeaderIds, body \in Reqs \cup {Initialize}, x \in OfferedAny : HTTPPost(h, body, x)
    \/ \E h \in HeaderIds : HTTPGet(h)
    \/ \E h \in HeaderIds : HTTPDelete(h)
    \/ \E req \in Reqs : StdioMessage(req)
    \/ StdioClose

Resumes ==
    \E s \in ServerIds, i \in 1..MaxReq, ok \in BOOLEAN : SamplingReturns(s, i, ok)

Ticks ==
    \/ \E s \in ServerIds : SubsTick(s)
    \/ \E s \in ServerIds, i \in 1..Len(messages) : LogsTick(s, i)
    \/ \E s \in ServerIds : StdErrTick(s)

\* the adapters with their sessions' requests
Next ==
    \/ Adapters(StateRequests \cup FewToolRequests, 0..MaxConn)
    \/ Resumes

Spec == Init /\ [][Next]_vars

\* the same with the interval timers firing
TimerNext ==
    \/ Adapters(StateRequests, {0})
    \/ Resumes
    \/ Ticks

TimerSpec == Init /\ [][TimerNext]_vars

\* the argument samples that say something about a tool: the empty object and the
\* samples that carry one of the fields its schema reads
RelevantArgs(name) ==
    {a \in ArgSamples :
        \/ a = NoArgs
        \/ /\ name \in RegisteredNames
           /\ \E fd \in inputSchema(name) : a[fd[1]] # Missing}

\* every tool call, under every environment default
ToolInit == Boot(EnvAppIds)

\* the downstream outcome matters to a call that gets as far as execute
RelevantCalls ==
    {r \in ToolRequests :
        /\ r.arguments \in RelevantArgs(r.name)
        /\ r.outcome # "ok" => (r.name \in RegisteredNames /\ parse(r.name, r.arguments))}

ToolNext == Adapters(RelevantCalls, {0})

ToolSpec == ToolInit /\ [][ToolNext]_vars

\* the registry built from any list of tool objects: tools/index.ts evaluated over a
\* list drawn from ToolSample, then the server answering tools/list
ToolSample == {"getOgData", "getOgScrapeData", "generateImage", "exportImageAsset"}
ToolLists == UNION {[1..n -> ToolSample] : n \in 0..MaxTools}

RegistryInit ==
    /\ Core({""})
    /\ toolDefs \in ToolLists
    /\ tools = <<>>
    /\ startup = "loading"

\* module evaluation of tools/index.ts:14-25: the array is built, nothing is compared
LoadRegistry ==
    /\ startup = "loading"
    /\ tools' = LoadTools(toolDefs)
    /\ startup' = "listening"
    /\ UNCHANGED <<toolDefs, adapter, envAppId, nextId, created, subscriptions, logLevel,
                   intervals, srvTransport, transport, tstate, initialized, sessions,
                   sessionIdToAppIdMap, inflight, dispatched, netSubs, netLevel, tornDown,
                   emitted, response, toolRun>>

ListRequests == {r \in Requests : r.method = "tools/list"}

RegistryNext ==
    \/ LoadRegistry
    \/ Adapters(ListRequests, {0})

RegistrySpec == RegistryInit /\ [][RegistryNext]_vars

\* list-tools between the requests that change a session, and a tool call that fails
ListNext ==
    \/ Adapters({r \in StateRequests : r \in [method : StateMethods, uri : {"scheme://abc/def"}]
                                           \/ r \in [method : StateMethods, level : {"error"}]}
                   \cup ListRequests
                   \cup {r \in FewToolRequests : r.name = "doesNotExist"}, {0})
    \/ Resumes

ListSpec == Init /\ [][ListNext]_vars

\* connections that end without a DELETE, with the timers firing: a Subscribe, an
\* Unsubscribe and a SetLevel are the requests sent
DropRequests ==
    {r \in StateRequests : \/ r \in [method : StateMethods, uri : {"scheme://abc/def"}]
                           \/ r \in [method : StateMethods, level : {"error"}]}

DropNext ==
    \/ Adapters(DropRequests, {0})
    \/ \E h \in HeaderIds : HTTPDrop(h)
    \/ Resumes
    \/ Ticks

\* a setInterval handle that has not been cleared keeps firing
DropSpec == Init /\ [][DropNext]_vars /\ WF_vars(Ticks)

\* requests that fail on their input, and the same kinds succeeding, between a
\* Subscribe and a SetLevel
FrameRequests ==
    {r \in ToolRequests : /\ r.name \in {"getOgData", "doesNotExist"}
                          /\ r.arguments \in {NoArgs, [NoArgs EXCEPT !["url"] = "url"]}
                          /\ r.outcome = "ok"}
    \cup {r \in ReadRequests : /\ r.outcome = "ok"
                               /\ r.uri.parts \in {<<"text">>, <<"uuid">>, <<"text", "uuid">>,
                                                    <<"uuid", "uuid">>}}
    \cup {r \in PromptRequests : r.given = {} /\ r.name \in {"no-such-prompt", "quick-icon"}}
    \cup {r \in DropRequests : r.method # "resources/unsubscribe"}

FrameNext ==
    \/ Adapters(FrameRequests, {0})
    \/ Resumes

FrameSpec == Init /\ [][FrameNext]_vars

\* the health probe between sessions opening, changing and closing
HealthNext ==
    \/ Adapters(DropRequests, {0})
    \/ Health
    \/ Resumes

HealthSpec == Init /\ [][HealthNext]_vars

\* one execute of the export tool, on any destination path: the first call of a run
ExportCall(dest, isLocal, outcome) ==
    /\ startup = "listening"
    /\ response = NoResponse
    /\ outcome = "writeFails" => (dest \notin {NotGiven, EmptyString} /\ isLocal)
    /\ response' = [Resp("none", "execute", "none", FALSE, "exportImageAsset", "result")
                      EXCEPT !.result = [destinationPath |-> dest, isLocal |-> isLocal]
                                        @@ ExportImageAssetTool(dest, isLocal, outcome)]
    /\ NoDispatch
    /\ UNCHANGED <<toolDefs, tools, startup, adapter, envAppId, nextId, created, intervals, srvTransport, transport,
                   tstate, initialized, sessions, sessionIdToAppIdMap, tornDown>>

ExportNext ==
    \E dest \in PathSamples \cup {NotGiven}, isLocal \in BOOLEAN, outcome \in ExportOutcomes :
        ExportCall(dest, isLocal, outcome)

ExportSpec == Init /\ [][ExportNext]_vars

\* one call of a function of the credential store; key 0 is a session id that is
\* empty or not a string, "" and Undefined are app ids that are no credential
StoreCall(op, key, value) ==
    /\ startup = "listening"
    /\ op # "set" => value = Undefined
    /\ sessionIdToAppIdMap' =
          CASE op = "set" -> setAppId(sessionIdToAppIdMap, key, value)
            [] op = "delete" -> deleteAppId(sessionIdToAppIdMap, key)
            [] op = "get" -> sessionIdToAppIdMap
    /\ response' = [Resp("none", "store", "none", FALSE, op, "result")
                      EXCEPT !.result = [key |-> key, value |-> value,
                                         returned |-> IF op = "get"
                                                      THEN getAppId(sessionIdToAppIdMap, key)
                                                      ELSE Undefined]]
    /\ NoDispatch
    /\ UNCHANGED <<toolDefs, tools, startup, adapter, envAppId, nextId, created, intervals, srvTransport, transport,
                   tstate, initialized, sessions, tornDown>>

StoreNext ==
    \E op \in {"set", "get", "delete"}, key \in {0} \cup SessionIds,
       value \in AppIds \cup {Undefined, ""} : StoreCall(op, key, value)

StoreSpec == Init /\ [][StoreNext]_vars

\* ------------------------------------------------ the installer (install.ts)
\* `{}`
EmptyObject == [k \in {} |-> ""]

\* { ...obj, [key]: value }
Spread(obj, key, value) ==
    [k \in DOMAIN obj \cup {key} |-> IF k = key THEN value ELSE obj[k]]

\* obj[key] || fallback
OrElse(obj, key, fallback) ==
    IF key \in DOMAIN obj THEN obj[key] ELSE fallback

\* CLIENTS (install.ts:36-110) by the two fields mergeConfig reads
ClientInfos ==
    {[configKey |-> "mcpServers", needsVSCodeFormat |-> FALSE],
     [configKey |-> "context_servers", needsVSCodeFormat |-> FALSE],
     [configKey |-> "servers", needsVSCodeFormat |-> TRUE]}

InstallAppIds == {"key1", "key2"}

\* generateServerConfig
generateServerConfig(appId) ==
    [command |-> "npx", args |-> <<"-y", "opengraph-io-mcp">>,
     env |-> [OPENGRAPH_APP_ID |-> appId]]

\* generateVSCodeConfig: the app id is not used
generateVSCodeConfig(appId) ==
    [inputs |-> <<[type |-> "promptString", id |-> "opengraph-app-id",
                   description |-> "OpenGraph App ID", password |-> TRUE]>>,
     servers |-> [opengraph |-> [type |-> "stdio", command |-> "npx",
                                 args |-> <<"-y", "opengraph-io-mcp">>,
                                 env |-> [OPENGRAPH_APP_ID |-> "${input:opengraph-app-id}"]]]]

\* The configs a file can hold (McpConfig): any subset of five top-level keys, "theme"
\* being a key the installer knows nothing of; a server map has an entry of someone
\* else, an older opengraph entry, both or none; the inputs are up to two prompts.
ServerMaps ==
    {[n \in N |-> [command |-> "node", args |-> <<n>>, env |-> [OPENGRAPH_APP_ID |-> "old"]]] :
        N \in SUBSET {"opengraph", "other"}}
InputLists ==
    UNION {[1..n -> {[type |-> "promptString", id |-> i, description |-> "theirs",
                      password |-> FALSE] : i \in {"opengraph-app-id", "db-password"}}] :
           n \in 0..2}
ConfigSamples ==
    {[k \in K |-> CASE k = "mcpServers" -> m
                    [] k = "servers" -> s
                    [] k = "context_servers" -> c
                    [] k = "inputs" -> i
                    [] k = "theme" -> "dark"] :
        K \in SUBSET {"mcpServers", "servers", "context_servers", "inputs", "theme"},
        m \in ServerMaps, s \in ServerMaps,
        c \in {x \in ServerMaps : "opengraph" \notin DOMAIN x}, i \in InputLists}

\* a config file: there or not, and when there, JSON or not
FileSamples ==
    {[exists |-> FALSE, parsable |-> FALSE, content |-> EmptyObject],
     [exists |-> TRUE, parsable |-> FALSE, content |-> EmptyObject]}
    \cup {[exists |-> TRUE, parsable |-> TRUE, content |-> c] : c \in ConfigSamples}

\* readConfig: {} when the file is not there or does not parse
readConfig(file) ==
    IF file.exists /\ file.parsable THEN file.content ELSE EmptyObject

mergeConfigMutant(existing, client, appId) ==
    Spread(existing, client.configKey, [opengraph |-> generateServerConfig(appId)])

\* mergeConfig
mergeConfig(existing, client, appId) ==
    IF client.needsVSCodeFormat
    THEN LET vsCodeConfig == generateVSCodeConfig(appId)
             kept == SelectSeq(OrElse(existing, "inputs", <<>>),
                               LAMBDA i : i.id # "opengraph-app-id")
         IN  Spread(Spread(existing, "inputs", kept \o vsCodeConfig.inputs),
                    "servers",
                    Spread(OrElse(existing, "servers", EmptyObject), "opengraph",
                           vsCodeConfig.servers.opengraph))
    ELSE Spread(existing, client.configKey,
                Spread(OrElse(existing, client.configKey, EmptyObject), "opengraph",
                       generateServerConfig(appId)))

\* install, for a client that has a config path: createBackup copies the file when it
\* is there, then the config is read, merged and written; fs is the file-system calls
\* made, in order, and file is the config file afterwards
install(file, client, appId) ==
    LET existingConfig == readConfig(file)
        newConfig == mergeConfig(existingConfig, client, appId)
        after == [exists |-> TRUE, parsable |-> TRUE, content |-> newConfig]
    IN  [before |-> file, client |-> client, appId |-> appId,
         existingConfig |-> existingConfig,
         fs |-> (IF file.exists THEN <<[op |-> "copyFile", data |-> file]>> ELSE <<>>)
                \o <<[op |-> "writeFile", data |-> after]>>,
         file |-> after]

\* one run of the installer on a config file
InstallCall(file, client, appId, run) ==
    /\ startup = "listening"
    /\ response' = [Resp("none", "install", "none", FALSE, "none", "result")
                      EXCEPT !.result = [run |-> run] @@ install(file, client, appId)]
    /\ NoDispatch
    /\ UNCHANGED <<toolDefs, tools, startup, adapter, envAppId, nextId, created, intervals, srvTransport, transport,
                   tstate, initialized, sessions, sessionIdToAppIdMap, tornDown>>

\* the installer is run on any file, and once more on the file that run has left
InstallNext ==
    \E client \in ClientInfos, appId \in InstallAppIds :
        \/ /\ response = NoResponse
           /\ \E file \in FileSamples : InstallCall(file, client, appId, 1)
        \/ /\ response.verb = "install"
           /\ response.result.run = 1
           /\ InstallCall(response.result.file, client, appId, 2)

InstallSpec == Init /\ [][InstallNext]_vars

\* the stateless handlers: resources/read, prompts/get and completion/complete
HandlerNext == Adapters(ReadRequests \cup PromptRequests \cup CompleteRequests, {0})

HandlerSpec == Init /\ [][HandlerNext]_vars

\* ================================================================ claims
LiveTimer(s) ==
    \/ intervals[s].subsUpdateInterval
    \/ intervals[s].logsUpdateInterval
    \/ intervals[s].stdErrUpdateInterval

FromTimer(s) ==
    \E i \in 1..Len(emitted) : emitted[i].timer # "none" /\ emitted[i].server = s

\* C1: once the teardown of a session has run, the three interval timers of the server
\* instance that served it are cleared and none of them makes a server.notification
\* call again.
C1_NoTimerAfterTeardown ==
    \A sid \in tornDown :
        /\ ~LiveTimer(ServerOfSession(sid))
        /\ ~FromTimer(ServerOfSession(sid))

\* a session has been torn down while the timers of another server still fire
C1_Witness ==
    /\ tornDown # {}
    /\ \E s \in ServerIds : FromTimer(s)

\* C2: in the SSE adapter, with two connections open, a tool call posted by the client
\* of one connection runs on that connection's session, with the credential stored
\* under that session id.
C2_PostRunsOnOwnSession ==
    (/\ adapter = "sse"
     /\ toolRun.tool # "none"
     /\ toolRun.caller # 0
     /\ \A t \in 1..nextId : tstate[t] = "open")
    => /\ toolRun.session = SessionIdOf(toolRun.caller)
       /\ toolRun.constructed /\ toolRun.tool \in CredentialTools
            => toolRun.appId = getAppId(sessionIdToAppIdMap, SessionIdOf(toolRun.caller))

\* a session is live: its connection is open (SSE), its id is in the session table (HTTP)
Live(sid) ==
    IF adapter = "http" THEN has(sid) ELSE tstate[sid] = "open"

\* C3: a step that closes one session leaves the timers, subscription set, log level and
\* credential binding of every other live session as they were.
C3_CloseLeavesOthers ==
    [][\A sid \in SessionIds :
          (Live(sid) /\ ~Live(sid)')
          => \A other \in SessionIds \ {sid} :
                Live(other)
                => /\ intervals'[ServerOfSession(other)] = intervals[ServerOfSession(other)]
                   /\ subscriptions'[ServerOfSession(other)] = subscriptions[ServerOfSession(other)]
                   /\ logLevel'[ServerOfSession(other)] = logLevel[ServerOfSession(other)]
                   /\ sessionIdToAppIdMap'[other] = sessionIdToAppIdMap[other]]_vars

\* C4: the credential store has an entry only under the ids of live sessions.
C4_StoreOnlyLiveSessions ==
    \A sid \in SessionIds : sessionIdToAppIdMap[sid] # Absent => Live(sid)

\* C5: in the streamable HTTP adapter a request with an unknown session id, or a
\* non-initialize request without one, is answered 400 and the step creates no
\* session-table entry, no server instance, no running timer and no credential entry.
C5_UnknownSessionCreatesNothing ==
    [][(/\ adapter = "http"
        /\ response'.verb \in {"POST", "GET", "DELETE"}
        /\ \/ response'.sent = "unknown"
           \/ response'.sent = "none" /\ ~response'.creating)
       => /\ response'.status = "400"
          /\ UNCHANGED <<sessions, created, intervals, sessionIdToAppIdMap>>]_vars

\* C6: a URI is in a session's subscription set exactly when the last Subscribe or
\* Unsubscribe of it to arrive was a Subscribe, the set holds it once, and no Subscribe
\* or Unsubscribe request ends in an error.
C6_SubscribeNetEffect ==
    /\ \A s \in ServerIds :
          /\ Range(subscriptions[s]) = netSubs[s]
          /\ Len(subscriptions[s]) = Cardinality(netSubs[s])
    /\ response.method \in {"resources/subscribe", "resources/unsubscribe"}
          => response.rpc # "error"

\* C7: a tick of the subscription timer makes exactly one resources/updated notification
\* for each URI whose last Subscribe or Unsubscribe was a Subscribe, and none for any
\* other URI.
C7_OneUpdatePerSubscribedUri ==
    [][\A s \in ServerIds :
          SubsTick(s)
          => /\ {emitted'[i].param : i \in 1..Len(emitted')} = netSubs[s]
             /\ Len(emitted') = Cardinality(netSubs[s])
             /\ \A i \in 1..Len(emitted') :
                   emitted'[i].method = "notifications/resources/updated"]_vars

\* a tick has notified the two subscribed URIs of a server after three requests
C7_Witness ==
    /\ dispatched = 3
    /\ Len(emitted) = 2
    /\ emitted[1].timer = "subs"
    /\ {emitted[1].param, emitted[2].param} = netSubs[emitted[1].server]

\* C8: a call of a registered tool with arguments that its input schema rejects ends in
\* a JSON-RPC error, runs no execute, makes no downstream request and changes nothing
\* of the sessions.
C8_InvalidArgumentsNeverExecute ==
    [][(/\ toolRun'.tool \in RegisteredNames
        /\ ~parse(toolRun'.tool, toolRun'.arguments))
       => /\ response'.rpc = "error"
          /\ ~toolRun'.executed
          /\ ~toolRun'.downstream
          /\ toolRun'.result = "none"
          /\ UNCHANGED <<subscriptions, logLevel, intervals, inflight, sessions,
                         sessionIdToAppIdMap, srvTransport, tstate, created>>]_vars

\* a tool was constructed, its schema rejected the arguments
C8_Witness ==
    /\ toolRun.tool \in RegisteredNames
    /\ toolRun.constructed
    /\ toolRun.error = "validation"
    /\ toolRun.arguments # NoArgs

\* C9: whatever handlers are still suspended at their await, a session's subscription
\* set and log level are those of running its requests one after the other in the order
\* they arrived; two overlapping requests therefore leave what one of their two orders
\* leaves.
C9_Serializable ==
    \A s \in ServerIds :
        /\ Range(subscriptions[s]) = netSubs[s]
        /\ logLevel[s] = netLevel[s]

\* a Subscribe is still waiting for its sampling answer and an Unsubscribe of the same
\* URI has run in the meantime
C9_Witness ==
    \E s \in ServerIds :
        /\ inflight[s] # <<>>
        /\ inflight[s][1].uri \notin Range(subscriptions[s])

HasDuplicate(defs) ==
    \E i, j \in 1..Len(defs) : i # j /\ defs[i] = defs[j]

BoundCredential ==
    getAppId(sessionIdToAppIdMap, toolRun.session)

\* C11: a tool call that runs its handler on a session with a bound credential c runs
\* it with c, whichever of the nine tools it is.
C11_BoundCredentialReachesEveryTool ==
    (/\ toolRun.executed
     /\ BoundCredential \notin {Undefined, ""})
    => toolRun.usedAppId = BoundCredential

\* C12: a call of a credential tool with valid arguments, on a session without a bound
\* credential and with no environment default, ends in the missing-credential
\* JSON-RPC error and makes no downstream request, on every transport.
C12_MissingCredentialIsProtocolError ==
    (/\ toolRun.tool \in CredentialTools
     /\ parse(toolRun.tool, toolRun.arguments)
     /\ BoundCredential \in {Undefined, ""}
     /\ envAppId = "")
    => /\ toolRun.error = "missingAppId"
       /\ response.rpc = "error"
       /\ toolRun.result = "none"
       /\ ~toolRun.downstream

\* C13: a call of a credential tool with valid arguments is forwarded with the
\* session's bound credential when there is one, and with the environment default
\* when there is none but the default is set.
C13_CredentialPrecedence ==
    (/\ toolRun.tool \in CredentialTools
     /\ parse(toolRun.tool, toolRun.arguments))
    => /\ BoundCredential \notin {Undefined, ""}
            => toolRun.downstream /\ toolRun.usedAppId = BoundCredential
       /\ (BoundCredential \in {Undefined, ""} /\ envAppId # "")
            => toolRun.downstream /\ toolRun.usedAppId = envAppId

\* C14: when the downstream call of a tool fails, in any of the three ways, the tool
\* call ends with a result whose content carries the error text (the error caught by
\* execute, or the reply body handed on), and never with a JSON-RPC error.
C14_DownstreamFailureBecomesData ==
    (/\ toolRun.executed
     /\ toolRun.downstream
     /\ toolRun.outcome # "ok")
    => /\ toolRun.result \in {"errorContent", "bodyContent"}
       /\ toolRun.error = "none"
       /\ response.rpc = "result"

\* C15: a Subscribe, Unsubscribe or SetLevel request sent by one live session leaves
\* the subscription set and the log level of every other live session as they were.
C15_StateRequestLeavesOthers ==
    [][\A a, b \in SessionIds :
          (/\ a # b
           /\ Live(a) /\ Live(b)
           /\ response'.from = a
           /\ response'.method \in StateMethods)
          => /\ subscriptions'[ServerOfSession(b)] = subscriptions[ServerOfSession(b)]
             /\ logLevel'[ServerOfSession(b)] = logLevel[ServerOfSession(b)]]_vars

\* the request answered by the last step was handled by a stateless handler
Handled(method) ==
    response.method = method /\ response.rpc # "none"

\* C16: a resource read gets as far as the asset fetch exactly when its URI starts
\* with asset://, the rest splits on "/" into two parts and both parts have the UUID
\* text form; every other URI ends in an error without a fetch.
C16_OnlyWellFormedUriFetches ==
    Handled("resources/read")
    => LET uri == response.result.request.uri
           wellFormed == /\ uri.scheme = "asset://"
                         /\ Len(uri.parts) = 2
                         /\ \A i \in 1..2 : uri.parts[i] \in {"uuid", "UUID"}
       IN  /\ response.result.fetched <=> wellFormed
           /\ ~wellFormed => response.rpc = "error"

\* a read of a well-formed URI has fetched the asset, and one with an upper-case id
C16_Witness ==
    /\ Handled("resources/read")
    /\ response.result.fetched
    /\ response.result.request.uri.parts[1] = "UUID"

\* C17: a get-prompt request for a listed prompt that lacks an argument declared
\* required ends in an error and returns no messages.
C17_MissingRequiredArgumentFails ==
    (/\ Handled("prompts/get")
     /\ response.result.request.name \in PromptName
     /\ ~(PromptArguments[response.result.request.name].required
             \subseteq response.result.request.given))
    => /\ response.rpc = "error"
       /\ ~response.result.messages

\* a completion request for one of the four known argument names of a prompt
KnownCompletion ==
    /\ Handled("completion/complete")
    /\ response.result.request.ref = "ref/prompt"
    /\ response.result.request.name \in DOMAIN EXAMPLE_COMPLETIONS

\* C18 as claimed: the values returned are the candidates that start with the partial
\* string as it was sent.
C18_PrefixAsSent ==
    KnownCompletion
    => response.result.values =
          SelectSeq(EXAMPLE_COMPLETIONS[response.result.request.name],
                    LAMBDA c : startsWith(c, response.result.request.value))

\* C18: for a known argument name the values returned are exactly the candidates of
\* its list that start with the partial string when letter case is ignored, in the
\* order of the list, and total is their number.
C18_PrefixIgnoringCase ==
    KnownCompletion
    => LET list == EXAMPLE_COMPLETIONS[response.result.request.name]
           p == toLowerCase(response.result.request.value)
           kept == {i \in 1..Len(list) : startsWith(toLowerCase(list[i]), p)}
           values == response.result.values
       IN  /\ Len(values) = Cardinality(kept)
           /\ \A i \in kept :
                 values[Cardinality({j \in kept : j <= i})] = list[i]
           /\ response.result.total = Len(values)

\* a partial string with an upper-case letter has matched a candidate
C18_Witness ==
    /\ KnownCompletion
    /\ response.result.request.value = <<"S", "t">>
    /\ response.result.values = <<EXAMPLE_COMPLETIONS["diagramType"][5]>>

\* C19: a completion request never ends in an error; for an argument name outside
\* the four known ones, and for a resource reference, the values are empty.
C19_CompletionNeverFails ==
    Handled("completion/complete")
    => /\ response.rpc = "result"
       /\ (\/ response.result.request.ref = "ref/resource"
           \/ response.result.request.name \notin DOMAIN EXAMPLE_COMPLETIONS)
          => response.result.values = <<>>

\* the ladder of the claim, lowest first
Rung ==
    [debug |-> 0, info |-> 1, notice |-> 2, warning |-> 3, error |-> 4, critical |-> 5,
     alert |-> 6, emergency |-> 7]

\* C20: a tick of the log timer that draws a message of level m emits it exactly when
\* m is not below the level of the last SetLevel on the ladder (debug when there was
\* none), and what it emits is a log message of level m.
C20_ThresholdFiltersLogs ==
    [][response' = NoResponse =>
       \A s \in ServerIds, i \in 1..Len(messages) :
          LogsTick(s, i)
          => /\ emitted' # <<>> <=> Rung[messages[i]] >= Rung[netLevel[s]]
             /\ emitted' # <<>> =>
                   /\ Len(emitted') = 1
                   /\ emitted'[1].method = "notifications/message"
                   /\ emitted'[1].param = messages[i]]_vars

\* after SetLevel(warning) a tick has delivered an error-level message
C20_Witness ==
    /\ emitted # <<>>
    /\ emitted[1].timer = "logs"
    /\ emitted[1].param = "error"
    /\ netLevel[emitted[1].server] = "warning"

\* the names list-tools returns
ListedNames ==
    {tools[i].name : i \in 1..Len(tools)}

\* C21: a tool call gets past the name switch exactly when its name is one of the names
\* list-tools returns; a call with any other name ends in an error, constructs no tool,
\* runs no execute and makes no downstream request.
C21_OnlyListedNamesReachATool ==
    toolRun.tool # "none"
    => /\ toolRun.error # "unknownTool" <=> toolRun.tool \in ListedNames
       /\ toolRun.tool \notin ListedNames
            => /\ response.rpc = "error"
               /\ ~toolRun.constructed
               /\ ~toolRun.executed
               /\ ~toolRun.downstream
               /\ toolRun.result = "none"

\* a call of doesNotExist on a session with a bound credential has ended in an error
C21_Witness ==
    /\ toolRun.tool = "doesNotExist"
    /\ toolRun.error = "unknownTool"
    /\ BoundCredential \notin {Undefined, ""}


\* C22: whatever the state of the session, list-tools returns the whole registry: one
\* descriptor for each of the nine tools, in the order of the list, no name twice, each
\* with a name and a description that are not empty.
C22_ListToolsIsTheFullRegistry ==
    Handled("tools/list")
    => LET r == response.result
       IN  /\ Len(r) = Len(ToolNames)
           /\ \A i \in 1..Len(r) :
                 /\ r[i].name = ToolNames[i]
                 /\ r[i].name # ""
                 /\ r[i].description # ""
           /\ \A i, j \in 1..Len(r) : i # j => r[i].name # r[j].name

\* list-tools has answered on a server that holds a subscription, has had its level
\* raised, has a Subscribe waiting for its sampling answer, and has a bound credential
C22_Witness ==
    /\ Handled("tools/list")
    /\ \E s \in ServerIds :
          /\ subscriptions[s] # <<>>
          /\ logLevel[s] = "error"
          /\ inflight[s] # <<>>
          /\ getAppId(sessionIdToAppIdMap, SessionOfServer(s)) \notin {Undefined, ""}


\* the connection under session sid has ended without a DELETE request: the SSE stream
\* or stdin has closed, the client of a streamable HTTP session has gone
ConnectionClosed(sid) ==
    tstate[sid] = IF adapter = "http" THEN "dropped" ELSE "closed"

\* nothing of session sid is left: timers, credential entry, session-table entry
Destroyed(sid) ==
    /\ ~LiveTimer(ServerOfSession(sid))
    /\ sessionIdToAppIdMap[sid] = Absent
    /\ adapter = "http" => ~has(sid)

\* C23: after the connection under a session has closed without a DELETE request, the
\* session is eventually destroyed: its timers are cleared, its credential entry is
\* deleted and, in the streamable HTTP adapter, its session-table entry is removed.
C23_ClosedConnectionIsTornDown ==
    \A sid \in SessionIds : ConnectionClosed(sid) ~> Destroyed(sid)


\* C24: in the streamable HTTP adapter, once a DELETE bearing a live session id has been
\* handled, the id is out of the session table, its credential entry is gone and its
\* timers are cleared, and every later POST, GET or DELETE bearing that id is answered
\* with status 400.
C24_DeletedSessionStaysDeleted ==
    [][adapter = "http"
       => \A h \in tornDown' :
             /\ ~has(h)'
             /\ sessionIdToAppIdMap'[h] = Absent
             /\ ~LiveTimer(ServerOfSession(h))'
             /\ (/\ h \in tornDown
                 /\ response'.sent = "unknown"
                 /\ \/ \E body \in StateRequests \cup FewToolRequests \cup {Initialize},
                          x \in OfferedAny : HTTPPost(h, body, x)
                    \/ HTTPGet(h)
                    \/ HTTPDelete(h))
                => response'.status = "400"]_vars


\* C25: while a session is live and a URI is in its subscription set, every tick of the
\* subscription timer of its server sends a resources/updated notification for that URI
\* on the session's own connection, whatever other sessions have connected or closed.
C25_TickNotifiesOwnSession ==
    [][response' = NoResponse =>
       \A sid \in SessionIds :
          (Live(sid) /\ SubsTick(ServerOfSession(sid)))
          => \A u \in Range(subscriptions[ServerOfSession(sid)]) :
                \E i \in 1..Len(emitted') :
                   /\ emitted'[i].method = "notifications/resources/updated"
                   /\ emitted'[i].param = u
                   /\ adapter # "stdio" => emitted'[i].session = sid]_vars


\* C26: a Subscribe request ends in success whether its sampling round trip succeeds or
\* fails, and when it ends its URI is in the subscription set (unless an Unsubscribe of
\* it has arrived since): never an error answer with the URI left subscribed.
C26_SubscribeOutcomeAgrees ==
    [][response'.method = "resources/subscribe"
       => /\ response'.rpc # "error"
          /\ \A s \in ServerIds, i \in 1..MaxReq, ok \in BOOLEAN :
                (SamplingReturns(s, i, ok) /\ inflight[s][i].uri \in netSubs[s])
                => inflight[s][i].uri \in Range(subscriptions'[s])]_vars


\* the request answered by the last step ended in an error because of its input: an
\* unknown tool name, arguments the schema rejects, no credential for the session, a
\* resource URI that is malformed or of an unknown scheme, an unknown prompt name
ErrorByInput ==
    \/ toolRun.error \in {"unknownTool", "validation", "missingAppId"}
    \/ Handled("resources/read") /\ response.rpc = "error" /\ ~response.result.fetched
    \/ Handled("prompts/get") /\ response.rpc = "error"

\* C27: a request that ends in an error because of its input leaves the subscription
\* sets, the log levels, the timers, the suspended handlers, the session table and the
\* credential store as they were.
C27_InputErrorChangesNothing ==
    [][ErrorByInput'
       => /\ response'.rpc = "error"
          /\ UNCHANGED <<subscriptions, logLevel, intervals, inflight, sessions,
                         sessionIdToAppIdMap, created, srvTransport>>]_vars

\* a tool call has failed on its arguments on a server that holds a subscription, a
\* raised level, running timers and a bound credential
C27_Witness ==
    /\ ErrorByInput
    /\ toolRun.error = "validation"
    /\ \E s \in ServerIds :
          /\ subscriptions[s] # <<>>
          /\ logLevel[s] = "error"
          /\ LiveTimer(s)
          /\ getAppId(sessionIdToAppIdMap, SessionOfServer(s)) \notin {Undefined, ""}


\* C28: the mutations of a session take effect in the order its requests arrive: a URI
\* whose Subscribe arrived before its Unsubscribe is out of the set as soon as the
\* Unsubscribe has been handled, also while the Subscribe is still waiting for its
\* sampling answer, and the Subscribe's resumption does not put it back.
C28_ArrivalOrder ==
    [][\A s \in ServerIds :
          /\ \A u \in URIs \ netSubs'[s] : u \notin Range(subscriptions'[s])
          /\ response'.status = "resumed" => subscriptions'[s] = subscriptions[s]]_vars

\* Subscribe(u), then Unsubscribe(u) while the Subscribe was suspended, then the
\* Subscribe has resumed: two requests in all, and no URI is subscribed
C28_Witness ==
    /\ response.status = "resumed"
    /\ dispatched = 2
    /\ \A s \in ServerIds : netSubs[s] = {} /\ subscriptions[s] = <<>>


\* C29: once the connection under a session has dropped, whatever handlers were still
\* suspended, no later step changes the session's subscription set or its log level,
\* and no later step makes a notification for it.
C29_NothingAfterDrop ==
    [][\A sid \in SessionIds :
          ConnectionClosed(sid)
          => /\ subscriptions'[ServerOfSession(sid)] = subscriptions[ServerOfSession(sid)]
             /\ logLevel'[ServerOfSession(sid)] = logLevel[ServerOfSession(sid)]
             /\ \A i \in 1..Len(emitted') :
                   emitted'[i].server # ServerOfSession(sid)]_vars


\* C30: once the teardown of a session has run, its subscription set is empty, its
\* three timers are cleared and its credential entry is gone, and they stay so.
C30_ClosedSessionHoldsNothing ==
    \A sid \in tornDown :
        /\ subscriptions[ServerOfSession(sid)] = <<>>
        /\ ~LiveTimer(ServerOfSession(sid))
        /\ sessionIdToAppIdMap[sid] = Absent


\* C31: a POST to the SSE message endpoint that arrives before any SSE connection has
\* been made, or after its connection has closed, is answered with an error status and
\* leaves no rejection unhandled.
C31_MessagePostNeverCrashes ==
    (/\ adapter = "sse"
     /\ response.verb = "POST /message")
    => /\ response.rejection # "unhandled"
       /\ (transport = 0 \/ tstate[transport] # "open") => response.status = "500"


\* C32: the health probe is answered 200 with the body {status: "ok"} whatever the
\* session table and the credential store hold, and handling it changes neither of
\* them nor the state of any session.
C32_HealthIsFixedAndPure ==
    [][response'.verb = "GET /health"
       => /\ response'.status = "200"
          /\ response'.result = [status |-> "ok"]
          /\ UNCHANGED <<sessions, sessionIdToAppIdMap, subscriptions, logLevel, intervals,
                         inflight, created, srvTransport, tstate, initialized, nextId>>]_vars

\* the probe has been answered while a session with a credential, a subscription and a
\* suspended Subscribe was in the table
C32_Witness ==
    /\ response.verb = "GET /health"
    /\ \E h \in SessionIds :
          /\ has(h)
          /\ sessionIdToAppIdMap[h] # Absent
          /\ subscriptions[sessions[h]] # <<>>
          /\ inflight[sessions[h]] # <<>>


\* the last step was an execute of the export tool with a destination path
Exported ==
    /\ response.method = "exportImageAsset"
    /\ response.result.destinationPath # NotGiven

\* a destination the tool must not write to: not absolute, or in a blocked directory
\* once normalized and lower-cased
Forbidden(p) ==
    \/ ~p.absolute
    \/ LET n == normalizeParts(<<>>, p.parts)
       IN  Len(n) >= 2 /\ toLowerCase(n[1]) \in blockedPrefixes

C34_StoreIsPerKeyMap ==
    [][response'.verb = "store"
       => LET k == response'.result.key
              follows == /\ response.verb = "store"
                         /\ response'.method = "get"
                         /\ response.result.key = k
                         /\ k # 0
          IN  /\ (follows /\ response.method = "set")
                    => response'.result.returned = response.result.value
              /\ (follows /\ response.method = "delete")
                    => response'.result.returned = Undefined
              /\ response'.method = "get" => UNCHANGED sessionIdToAppIdMap
              /\ \A other \in SessionIds \ {k} :
                    sessionIdToAppIdMap'[other] = sessionIdToAppIdMap[other]
              /\ k = 0 => /\ UNCHANGED sessionIdToAppIdMap
                          /\ response'.result.returned = Undefined]_vars

\* a get has returned the credential of one key after the other key was set and deleted
C34_Witness ==
    /\ response.verb = "store"
    /\ response.method = "get"
    /\ response.result.key = 1
    /\ response.result.returned = KeyOf(1)
    /\ sessionIdToAppIdMap[2] = Absent


\* C35: a step that runs the SetLevel handler leaves the server's threshold at the
\* requested level, makes exactly one server.notification call, a log message of level
\* debug that no timer made, and ends in a result.
C35_SetLevelConfirmsOnce ==
    [][(/\ response'.method = "logging/setLevel"
        /\ response'.rpc # "none"
        /\ dispatched' = dispatched + 1)
       => /\ response'.rpc = "result"
          /\ Len(emitted') = 1
          /\ emitted'[1].method = "notifications/message"
          /\ emitted'[1].param = "debug"
          /\ emitted'[1].timer = "none"
          /\ logLevel'[emitted'[1].server] = netLevel'[emitted'[1].server]]_vars


\* C36: in the streamable HTTP adapter every server whose timers are running belongs to
\* an entry of the session table.
C36_RunningTimersAreOwned ==
    adapter = "http"
    => \A s \in created :
          LiveTimer(s) => \E sid \in SessionIds : has(sid) /\ ServerOfSession(sid) = s


\* C37: on the SSE and streamable HTTP adapters, a call of one of the five tools that
\* need a credential, made with arguments the tool's schema rejects while neither the
\* session the request names nor the session the handler runs on has a credential, ends
\* in the missing-credential error with no tool constructed and nothing executed.
C37_CredentialCheckedBeforeArguments ==
    (/\ adapter # "stdio"
     /\ toolRun.tool \in CredentialTools
     /\ getAppId(sessionIdToAppIdMap, toolRun.caller) \in {Undefined, ""}
     /\ getAppId(sessionIdToAppIdMap, toolRun.session) \in {Undefined, ""}
     /\ ~parse(toolRun.tool, toolRun.arguments))
    => /\ toolRun.error = "missingAppId"
       /\ ~toolRun.constructed
       /\ ~toolRun.executed


OwnedKeys(client) ==
    IF client.needsVSCodeFormat THEN {"inputs", "servers"} ELSE {client.configKey}

\* C39: a run of the installer copies the config file first when there is one and then
\* writes it once; the config written has every top-level key of the config read, with
\* the value it had unless the key is one the client's format owns; the client's server
\* map has every entry it had under another name and one opengraph entry, the generated
\* one; for VS Code the other inputs are as they were, in order, and one
\* opengraph-app-id input follows them; and a second run for the same client and app id
\* writes the file the first run has left.
C39_MergePreservesAndIsIdempotent ==
    [][response'.verb = "install"
       => LET r == response'.result
              e == r.existingConfig
              w == r.file.content
              key == r.client.configKey
              others(seq) == SelectSeq(seq, LAMBDA i : i.id # "opengraph-app-id")
          IN  /\ r.fs = (IF r.before.exists
                         THEN <<[op |-> "copyFile", data |-> r.before]>> ELSE <<>>)
                        \o <<[op |-> "writeFile", data |-> r.file]>>
              /\ DOMAIN w = DOMAIN e \cup OwnedKeys(r.client)
              /\ \A k \in DOMAIN e \ OwnedKeys(r.client) : w[k] = e[k]
              /\ DOMAIN w[key] = DOMAIN OrElse(e, key, EmptyObject) \cup {"opengraph"}
              /\ \A n \in DOMAIN OrElse(e, key, EmptyObject) \ {"opengraph"} :
                    w[key][n] = e[key][n]
              /\ w[key]["opengraph"] = IF r.client.needsVSCodeFormat
                                       THEN generateVSCodeConfig(r.appId).servers.opengraph
                                       ELSE generateServerConfig(r.appId)
              /\ r.client.needsVSCodeFormat
                    => /\ others(w["inputs"]) = others(OrElse(e, "inputs", <<>>))
                       /\ w["inputs"] = others(w["inputs"]) \o generateVSCodeConfig(r.appId).inputs
              /\ (/\ r.run = 2
                  /\ r.client = response.result.client
                  /\ r.appId = response.result.appId)
                    => r.file = response.result.file]_vars

\* the installer has run for VS Code on an existing file that holds a key of its own,
\* a server of someone else, and an older opengraph-app-id input before another input
C39_Witness ==
    /\ response.verb = "install"
    /\ response.result.client.needsVSCodeFormat
    /\ response.result.before.exists
    /\ response.result.before.parsable
    /\ {"theme", "servers", "inputs"} \subseteq DOMAIN response.result.existingConfig
    /\ "other" \in DOMAIN response.result.existingConfig["servers"]
    /\ Len(response.result.existingConfig["inputs"]) = 2
    /\ response.result.existingConfig["inputs"][1].id = "opengraph-app-id"
    /\ response.result.existingConfig["inputs"][2].id = "db-password"

====
